---- MODULE Spec2Model ----
(***************************************************************************)
(* Client-side conversation/message state of the ContextLink chat UI:      *)
(* the App controller (frontend/src/App.tsx) and the ChatInterface submit  *)
(* control (frontend/src/components/ChatInterface.tsx), together with the  *)
(* REST backend they talk to.  Every network call is an asynchronous       *)
(* request: it is issued by a handler, answered by the backend, and its    *)
(* continuation runs later, in any order relative to the other requests.   *)
(***************************************************************************)
EXTENDS Integers, Sequences, FiniteSets, TLC

(* ------------------------------ bounds -------------------------------- *)

\* requests the user may issue after the two fetches of the mount effect
MaxReqs == 2
\* texts the user may type into the chat input (sequences of characters)
Inputs == { <<>>, <<" ">>, <<" ", "h", " ">> }

\* a Model of the catalog
Model(name, provider) ==
    [name |-> name, info |-> [provider |-> provider, model |-> name]]

\* the model catalog the backend serves
Catalog == <<Model("gpt-4", "openai"), Model("claude-3", "anthropic")>>

(* ------------------------------ helpers ------------------------------- *)

Remove(s, i) == SubSeq(s, 1, i - 1) \o SubSeq(s, i + 1, Len(s))

RECURSIVE SumTokens(_)
SumTokens(ms) ==
    IF ms = <<>> THEN 0 ELSE ms[1].token_count + SumTokens(Tail(ms))

IsSpace(c) == c \in {" ", "\t"}

\* String.prototype.trim: drop leading and trailing whitespace
RECURSIVE TrimLeft(_)
TrimLeft(s) ==
    IF s # <<>> /\ IsSpace(s[1]) THEN TrimLeft(Tail(s)) ELSE s

RECURSIVE TrimRight(_)
TrimRight(s) ==
    IF s # <<>> /\ IsSpace(s[Len(s)]) THEN TrimRight(SubSeq(s, 1, Len(s) - 1)) ELSE s

trim(s) == TrimRight(TrimLeft(s))

(* ------------------------------- state -------------------------------- *)

VARIABLES
    conversations,        \* App: useState<Conversation[]>([])
    currentConversation,  \* App: useState<Conversation | null>(null)
    availableModels,      \* App: useState<Model[]>([])
    selectedModel,        \* App: useState<string>('gpt-4')
    inputValue,           \* ChatInterface: useState('')
    isLoading,            \* ChatInterface: useState(false)
    mounted,              \* whether App's mount effect has run
    inflight,             \* requests issued and not yet settled, in issue order
    issued,               \* number of requests issued by user intents
    db,                   \* backend: the stored conversations, db[i].id = i
    catalog,              \* backend: the model catalog
    nextMsgId,            \* backend: id of the next message
    lastOp,               \* the handler or continuation that ran last
    arg,                  \* the value a display helper is applied to
    display,              \* what the display helper rendered
    selectLog             \* the select intents of the user so far

appVars == <<conversations, currentConversation, availableModels, selectedModel>>
chatVars == <<inputValue, isLoading>>
serverVars == <<db, catalog, nextMsgId>>
fmtVars == <<arg, display>>
auxVars == <<arg, display, selectLog>>
vars == <<conversations, currentConversation, availableModels, selectedModel,
          inputValue, isLoading, mounted, inflight, issued, db, catalog,
          nextMsgId, lastOp, arg, display, selectLog>>

\* the null of `Conversation | null`
Null == [null |-> TRUE]

Conversation(id, model, msgs) ==
    [id |-> id, title |-> "New Conversation", current_model |-> model,
     message_count |-> Len(msgs), total_tokens |-> SumTokens(msgs),
     messages |-> msgs]

Message(id, model, tokens) ==
    [id |-> id, role |-> "assistant", model_used |-> model, token_count |-> tokens]

\* backend: the token_count of the message that answers `content`
TokenCount(content) == Len(content) + 1

Request(kind, id, content, model, snap) ==
    [kind |-> kind, id |-> id, content |-> content, model |-> model,
     snap |-> snap, status |-> "pending", resp |-> <<>>]

\* the conversations the backend holds when the page loads
SeedDb == << Conversation(1, "gpt-4", <<Message(1, "gpt-4", 1)>>) >>

Op(op, kind) == [op |-> op, kind |-> kind]

\* nothing rendered, nothing selected
NoArg == [type |-> "none", amount |-> 0, age |-> 0, provider |-> ""]
NoDisplay == [fn |-> "", place |-> "", text |-> <<>>]
NoSelect == [n |-> 0, id |-> 0, before |-> Null, failed |-> FALSE]

AuxInit ==
    /\ arg = NoArg
    /\ display = NoDisplay
    /\ selectLog = NoSelect

AppInit ==
    /\ conversations = <<>>
    /\ currentConversation = Null
    /\ availableModels = <<>>
    /\ selectedModel = "gpt-4"
    /\ inputValue = <<>>
    /\ isLoading = FALSE
    /\ mounted = FALSE
    /\ inflight = <<>>
    /\ issued = 0
    /\ db = SeedDb
    /\ catalog = Catalog
    /\ nextMsgId = 2
    /\ lastOp = Op("init", "")

Init == AppInit /\ AuxInit

(* ------------------------- App: pure pieces --------------------------- *)

\* setConversations([conversation, ...conversations]) with the list the
\* createNewConversation closure captured when it was called
PrependConversation(conversation, captured) == <<conversation>> \o captured

\* faulty variant: the new message replaces the thread
AppendMessage_Replace(prev, message) ==
    IF prev = Null THEN Null
    ELSE [prev EXCEPT !.messages = <<message>>]

\* the updater of sendMessage: prev => prev ? {...prev, messages: [...prev.messages, message]} : null
AppendMessage(prev, message) ==
    IF prev = Null THEN Null
    ELSE [prev EXCEPT !.messages = Append(@, message)]

\* faulty variant: the fetched conversation is merged into the previous one
ReplaceConversation_Merge(prev, conversation) ==
    IF prev = Null THEN conversation
    ELSE [conversation EXCEPT !.messages = prev.messages \o @]

\* setCurrentConversation(conversation) of selectConversation
ReplaceConversation(prev, conversation) == conversation

\* faulty variants: the catch block resets the state
CatchCurrent_Reset(prev) == Null
CatchConversations_Clear(list) == <<>>

\* the state a catch block leaves: console.error only
CatchCurrent(prev) == prev
CatchConversations(list) == list

\* faulty variant: the input is not trimmed before the test
SubmitRejected_NoTrim(input, loading) == input = <<>> \/ loading

\* the guard of handleSubmit: if (!inputValue.trim() || isLoading) return
SubmitRejected(input, loading) == trim(input) = <<>> \/ loading

\* faulty variant: the text sent is shown in the thread before the reply
CurrentOnSubmit_Optimistic(prev, content) ==
    [prev EXCEPT !.messages =
        Append(@, [id |-> 0, role |-> "user", model_used |-> "", token_count |-> 0])]

\* sendMessage before its await leaves currentConversation alone
CurrentOnSubmit(prev, content) == prev

\* faulty variants: setIsLoading(true) forgotten; input cleared at submit
\* time; setIsLoading(false) forgotten
LoadingOnSubmit_Forgot(loading) == loading
InputOnSubmit_Clear(input) == <<>>
LoadingAfterSend_Stuck(loading) == loading

\* what handleSubmit does before `await onSendMessage(...)`:
\* setIsLoading(true), and nothing to inputValue
LoadingOnSubmit(loading) == TRUE
InputOnSubmit(input) == input

\* what handleSubmit does once `await onSendMessage(...)` resumes:
\* setInputValue(''), setIsLoading(false)
InputAfterSend(input) == <<>>
LoadingAfterSend(loading) == FALSE

\* the option the <select> of ModelSelector shows: the one matching
\* selectedModel, else the first one
ModelNames == { availableModels[k].name : k \in 1..Len(availableModels) }
DisplayedModel ==
    IF selectedModel \in ModelNames \/ availableModels = <<>> THEN selectedModel
    ELSE availableModels[1].name

ListedIds == { conversations[k].id : k \in 1..Len(conversations) }

(* ------------------------------ App ----------------------------------- *)

\* useEffect(() => { fetchAvailableModels(); fetchConversations() }, [])
Mount ==
    /\ ~mounted
    /\ mounted' = TRUE
    /\ inflight' = inflight \o << Request("models", 0, <<>>, "", <<>>),
                                  Request("list", 0, <<>>, "", <<>>) >>
    /\ lastOp' = Op("issue", "mount")
    /\ UNCHANGED <<appVars, chatVars, serverVars, issued>>

\* createNewConversation, up to its first await
CreateNewConversation ==
    /\ mounted
    /\ issued < MaxReqs
    /\ inflight' = Append(inflight,
                          Request("create", 0, <<>>, selectedModel, conversations))
    /\ issued' = issued + 1
    /\ lastOp' = Op("issue", "create")
    /\ UNCHANGED <<appVars, chatVars, serverVars, mounted>>

\* selectConversation(conversationId), up to its first await; the id is
\* that of an entry of the rendered list
SelectConversation(conversationId) ==
    /\ mounted
    /\ issued < MaxReqs
    /\ conversationId \in ListedIds
    /\ inflight' = Append(inflight,
                          Request("select", conversationId, <<>>, "", <<>>))
    /\ issued' = issued + 1
    /\ lastOp' = Op("issue", "select")
    /\ UNCHANGED <<appVars, chatVars, serverVars, mounted>>

\* onModelChange = setSelectedModel, fired by the <select> of ModelSelector
OnModelChange(name) ==
    /\ mounted
    /\ name \in ModelNames
    /\ name # DisplayedModel
    /\ selectedModel' = name
    /\ lastOp' = Op("change", "model")
    /\ UNCHANGED <<conversations, currentConversation, availableModels,
                   chatVars, serverVars, mounted, inflight, issued>>

(* -------------------------- ChatInterface ----------------------------- *)

\* ChatInterface is rendered only while there is a current conversation
ChatMounted == currentConversation # Null

\* onChange of the text input; the input is disabled while isLoading
OnInputChange(text) ==
    /\ ChatMounted
    /\ ~isLoading
    /\ text # inputValue
    /\ inputValue' = text
    /\ lastOp' = Op("change", "input")
    /\ UNCHANGED <<appVars, isLoading, serverVars, mounted, inflight, issued>>

\* handleSubmit, up to `await onSendMessage(inputValue.trim())`, and
\* sendMessage up to its first await.  The form exists only while there is
\* a current conversation, so the `if (!currentConversation) return` of
\* sendMessage is never taken.
HandleSubmit ==
    /\ ChatMounted
    /\ \/ /\ SubmitRejected(inputValue, isLoading)
          /\ lastOp' = Op("submit", "rejected")
          /\ UNCHANGED <<appVars, chatVars, serverVars, mounted, inflight, issued>>
       \/ /\ ~SubmitRejected(inputValue, isLoading)
          /\ issued < MaxReqs
          /\ isLoading' = LoadingOnSubmit(isLoading)
          /\ inputValue' = InputOnSubmit(inputValue)
          /\ inflight' = Append(inflight,
                                Request("send", currentConversation.id,
                                        trim(inputValue), selectedModel, <<>>))
          /\ issued' = issued + 1
          /\ currentConversation' =
                CurrentOnSubmit(currentConversation, trim(inputValue))
          /\ lastOp' = Op("submit", "accepted")
          /\ UNCHANGED <<conversations, availableModels, selectedModel,
                         serverVars, mounted>>

(* ------------------------------ backend ------------------------------- *)

\* the backend answers request i
ServerHandle(i) ==
    LET r == inflight[i] IN
    /\ r.status = "pending"
    /\ \/ /\ r.kind = "models"
          /\ inflight' = [inflight EXCEPT ![i].status = "answered", ![i].resp = catalog]
          /\ UNCHANGED <<db, nextMsgId>>
       \/ /\ r.kind = "list"
          /\ inflight' = [inflight EXCEPT ![i].status = "answered", ![i].resp = db]
          /\ UNCHANGED <<db, nextMsgId>>
       \/ /\ r.kind = "create"
          /\ LET c == Conversation(Len(db) + 1, r.model, <<>>) IN
             /\ db' = Append(db, c)
             /\ inflight' = [inflight EXCEPT ![i].status = "answered", ![i].resp = c]
          /\ UNCHANGED nextMsgId
       \/ /\ r.kind = "select"
          /\ inflight' = [inflight EXCEPT ![i].status = "answered", ![i].resp = db[r.id]]
          /\ UNCHANGED <<db, nextMsgId>>
       \/ /\ r.kind = "send"
          /\ LET m == Message(nextMsgId, r.model, TokenCount(r.content)) IN
             /\ db' = [db EXCEPT ![r.id] =
                         Conversation(r.id, @.current_model, Append(@.messages, m))]
             /\ inflight' = [inflight EXCEPT ![i].status = "answered", ![i].resp = m]
          /\ nextMsgId' = nextMsgId + 1
    /\ lastOp' = Op("handle", r.kind)
    /\ UNCHANGED <<appVars, chatVars, catalog, mounted, issued>>

(* --------------------- continuations after await ---------------------- *)

\* fetchAvailableModels after `await response.json()`
FetchAvailableModelsDone(i) ==
    /\ inflight[i].kind = "models" /\ inflight[i].status = "answered"
    /\ availableModels' = inflight[i].resp
    /\ inflight' = Remove(inflight, i)
    /\ lastOp' = Op("done", "models")
    /\ UNCHANGED <<conversations, currentConversation, selectedModel,
                   chatVars, serverVars, mounted, issued>>

\* fetchConversations after `await response.json()`
FetchConversationsDone(i) ==
    /\ inflight[i].kind = "list" /\ inflight[i].status = "answered"
    /\ conversations' = inflight[i].resp
    /\ inflight' = Remove(inflight, i)
    /\ lastOp' = Op("done", "list")
    /\ UNCHANGED <<currentConversation, availableModels, selectedModel,
                   chatVars, serverVars, mounted, issued>>

\* createNewConversation after `await response.json()`
CreateDone(i) ==
    /\ inflight[i].kind = "create" /\ inflight[i].status = "answered"
    /\ currentConversation' = inflight[i].resp
    /\ conversations' = PrependConversation(inflight[i].resp, inflight[i].snap)
    /\ inflight' = Remove(inflight, i)
    /\ lastOp' = Op("done", "create")
    /\ UNCHANGED <<availableModels, selectedModel, chatVars, serverVars,
                   mounted, issued>>

\* selectConversation after `await response.json()`
SelectDone(i) ==
    /\ inflight[i].kind = "select" /\ inflight[i].status = "answered"
    /\ currentConversation' = ReplaceConversation(currentConversation, inflight[i].resp)
    /\ inflight' = Remove(inflight, i)
    /\ lastOp' = Op("done", "select")
    /\ UNCHANGED <<conversations, availableModels, selectedModel, chatVars,
                   serverVars, mounted, issued>>

\* sendMessage after `await response.json()`, then handleSubmit after
\* `await onSendMessage(...)`
SendDone(i) ==
    /\ inflight[i].kind = "send" /\ inflight[i].status = "answered"
    /\ currentConversation' = AppendMessage(currentConversation, inflight[i].resp)
    /\ inputValue' = InputAfterSend(inputValue)
    /\ isLoading' = LoadingAfterSend(isLoading)
    /\ inflight' = Remove(inflight, i)
    /\ lastOp' = Op("done", "send")
    /\ UNCHANGED <<conversations, availableModels, selectedModel, serverVars,
                   mounted, issued>>

\* fetch or response.json() rejects: the catch block of the handler runs;
\* for a send, handleSubmit then resumes as after a success
Fail(i) ==
    LET r == inflight[i] IN
    /\ currentConversation' = CatchCurrent(currentConversation)
    /\ IF r.kind = "send"
         THEN /\ inputValue' = InputAfterSend(inputValue)
              /\ isLoading' = LoadingAfterSend(isLoading)
         ELSE UNCHANGED chatVars
    /\ inflight' = Remove(inflight, i)
    /\ conversations' = CatchConversations(conversations)
    /\ lastOp' = Op("fail", r.kind)
    /\ UNCHANGED <<availableModels, selectedModel, serverVars, mounted, issued>>

Next ==
    \/ Mount /\ UNCHANGED auxVars
    \/ CreateNewConversation /\ UNCHANGED auxVars
    \/ \E id \in 1..(Len(SeedDb) + MaxReqs) :
         SelectConversation(id) /\ UNCHANGED auxVars
    \/ \E name \in {"gpt-4", "claude-3"} : OnModelChange(name) /\ UNCHANGED auxVars
    \/ \E text \in Inputs : OnInputChange(text) /\ UNCHANGED auxVars
    \/ HandleSubmit /\ UNCHANGED auxVars
    \/ \E i \in 1..Len(inflight) : ServerHandle(i) /\ UNCHANGED auxVars
    \/ \E i \in 1..Len(inflight) : FetchAvailableModelsDone(i) /\ UNCHANGED auxVars
    \/ \E i \in 1..Len(inflight) : FetchConversationsDone(i) /\ UNCHANGED auxVars
    \/ \E i \in 1..Len(inflight) : CreateDone(i) /\ UNCHANGED auxVars
    \/ \E i \in 1..Len(inflight) : SelectDone(i) /\ UNCHANGED auxVars
    \/ \E i \in 1..Len(inflight) : SendDone(i) /\ UNCHANGED auxVars
    \/ \E i \in 1..Len(inflight) : Fail(i) /\ UNCHANGED auxVars

Spec == Init /\ [][Next]_vars

(* ====================== a session in progress ========================= *)
(* The page has loaded against a backend that holds two conversations:     *)
(* the list has arrived, the user has opened conversation 1, and the model *)
(* catalog is still on its way.                                            *)

\* the catalogs the backend may serve
Catalogs == { Catalog, <<Model("claude-3", "anthropic")>> }

SessionDb == SeedDb \o << Conversation(2, "gpt-4", <<Message(2, "gpt-4", 1)>>) >>

SessionInit ==
    /\ conversations = SessionDb
    /\ currentConversation = SessionDb[1]
    /\ availableModels = <<>>
    /\ selectedModel = "gpt-4"
    /\ inputValue = <<>>
    /\ isLoading = FALSE
    /\ mounted = TRUE
    /\ inflight = << Request("models", 0, <<>>, "", <<>>) >>
    /\ issued = 0
    /\ db = SessionDb
    /\ catalog \in Catalogs
    /\ nextMsgId = 3
    /\ lastOp = Op("done", "select")
    /\ AuxInit

\* selectLog: how many times the user has selected, the id selected last,
\* the active conversation as it was then, and whether a select has failed
LogSelect(id) ==
    selectLog' = [n |-> selectLog.n + 1, id |-> id,
                  before |-> currentConversation, failed |-> selectLog.failed]

LogFail(i) ==
    selectLog' = [selectLog EXCEPT !.failed = @ \/ inflight[i].kind = "select"]

SessionNext ==
    \/ CreateNewConversation /\ UNCHANGED auxVars
    \/ \E id \in 1..(Len(SessionDb) + MaxReqs) :
         SelectConversation(id) /\ LogSelect(id) /\ UNCHANGED fmtVars
    \/ \E name \in {"gpt-4", "claude-3"} : OnModelChange(name) /\ UNCHANGED auxVars
    \/ \E text \in Inputs : OnInputChange(text) /\ UNCHANGED auxVars
    \/ HandleSubmit /\ UNCHANGED auxVars
    \/ \E i \in 1..Len(inflight) : ServerHandle(i) /\ UNCHANGED auxVars
    \/ \E i \in 1..Len(inflight) : FetchAvailableModelsDone(i) /\ UNCHANGED auxVars
    \/ \E i \in 1..Len(inflight) : CreateDone(i) /\ UNCHANGED auxVars
    \/ \E i \in 1..Len(inflight) : SelectDone(i) /\ UNCHANGED auxVars
    \/ \E i \in 1..Len(inflight) : SendDone(i) /\ UNCHANGED auxVars
    \/ \E i \in 1..Len(inflight) : Fail(i) /\ LogFail(i) /\ UNCHANGED fmtVars

SpecSession == SessionInit /\ [][SessionNext]_vars

(* ------------------- error-status responses --------------------------- *)

\* the JSON body of an error-status response
ErrorBody == [detail |-> "Not Found"]

\* the backend answers a create, select or send with an error status and
\* a JSON body: fetch resolves and response.json() returns the body
ServerError(i) ==
    LET r == inflight[i] IN
    /\ r.status = "pending"
    /\ r.kind \in {"create", "select", "send"}
    /\ inflight' = [inflight EXCEPT ![i].status = "answered", ![i].resp = ErrorBody]
    /\ lastOp' = Op("error", r.kind)
    /\ UNCHANGED <<appVars, chatVars, serverVars, mounted, issued>>

\* an error body has been stored in the state; what is rendered and sent
\* from such a state is not followed
Corrupted ==
    \/ currentConversation = ErrorBody
    \/ /\ currentConversation # Null
       /\ currentConversation # ErrorBody
       /\ \E k \in 1..Len(currentConversation.messages) :
            currentConversation.messages[k] = ErrorBody

ErrorNext ==
    /\ ~Corrupted
    /\ \/ SessionNext
       \/ \E i \in 1..Len(inflight) : ServerError(i) /\ UNCHANGED auxVars

SpecError == SessionInit /\ [][ErrorNext]_vars

(* ========================= display helpers ============================ *)
(* formatCost, formatCarbon (ConversationList.tsx, ChatInterface.tsx),     *)
(* formatDate (ConversationList.tsx), getModelIcon, getModelColor          *)
(* (ModelSelector).  A parsed amount is a whole number of 1/10000 of a     *)
(* dollar or gram; an age is a whole number of half hours.  A rendered     *)
(* string is the sequence of its characters.                               *)

\* amounts per unit (dollar, gram) and ages per hour
AmountScale == 10000
AgePerHour == 2

\* largest amount and age rendered, besides the two worked examples
MaxAmount == 120
MaxAge == 340

\* Number.prototype.toFixed rounds the binary value of the number; amounts
\* halfway between two results are left out, the others round to nearest
Amounts ==
    { k \in 0..MaxAmount : k % 10 # 5 /\ k % 100 # 50 } \cup {15000, 21000}
Ages == (0 - 2)..MaxAge
Providers == {"openai", "anthropic", "google", "other", "mistral", ""}

RECURSIVE Pow10(_)
Pow10(e) == IF e = 0 THEN 1 ELSE 10 * Pow10(e - 1)

DigitChar(d) ==
    CASE d = 0 -> "0" [] d = 1 -> "1" [] d = 2 -> "2" [] d = 3 -> "3"
      [] d = 4 -> "4" [] d = 5 -> "5" [] d = 6 -> "6" [] d = 7 -> "7"
      [] d = 8 -> "8" [] d = 9 -> "9"

\* the decimal digits of n, at least `width` of them
RECURSIVE Digits(_, _)
Digits(n, width) ==
    IF n < 10 /\ width <= 1 THEN <<DigitChar(n)>>
    ELSE Append(Digits(n \div 10, width - 1), DigitChar(n % 10))

\* num.toFixed(f) for num = k / AmountScale, f <= 4
toFixed(k, f) ==
    LET unit == AmountScale \div Pow10(f)
        n == (k + unit \div 2) \div unit IN
    Digits(n \div Pow10(f), 1) \o <<".">> \o Digits(n % Pow10(f), f)

\* ConversationList: num < 0.01 ? '<$0.01' : `$${num.toFixed(2)}`
formatCostList(k) ==
    IF k * 100 < AmountScale THEN <<"<", "$", "0", ".", "0", "1">>
    ELSE <<"$">> \o toFixed(k, 2)

\* ChatInterface: num < 0.01 ? '<$0.01' : `$${num.toFixed(4)}`
formatCostChat(k) ==
    IF k * 100 < AmountScale THEN <<"<", "$", "0", ".", "0", "1">>
    ELSE <<"$">> \o toFixed(k, 4)

\* ConversationList: num < 0.001 ? '<0.001g' : `${num.toFixed(2)}g`
formatCarbonList(k) ==
    IF k * 1000 < AmountScale THEN <<"<", "0", ".", "0", "0", "1", "g">>
    ELSE toFixed(k, 2) \o <<"g">>

\* ChatInterface: num < 0.001 ? '<0.001g' : `${num.toFixed(3)}g`
formatCarbonChat(k) ==
    IF k * 1000 < AmountScale THEN <<"<", "0", ".", "0", "0", "1", "g">>
    ELSE toFixed(k, 3) \o <<"g">>

\* faulty variant: the seventh day is counted in
formatDate_Inclusive(age) ==
    IF age < 24 * AgePerHour THEN <<"time">>
    ELSE IF age <= 168 * AgePerHour THEN <<"weekday">>
    ELSE <<"monthday">>

\* formatDate: the branch taken for diffInHours = age / AgePerHour;
\* "time" is toLocaleTimeString, "weekday" and "monthday" toLocaleDateString
formatDate(age) ==
    IF age < 24 * AgePerHour THEN <<"time">>
    ELSE IF age < 168 * AgePerHour THEN <<"weekday">>
    ELSE <<"monthday">>

\* getModelIcon: robot, brain and gem stand for the three emoji
getModelIcon(provider) ==
    CASE provider = "openai" -> <<"robot">>
      [] provider = "anthropic" -> <<"brain">>
      [] provider = "google" -> <<"gem">>
      [] OTHER -> <<"robot">>

\* faulty variant: the switch has no default
getModelColor_NoDefault(provider) ==
    CASE provider = "openai" -> <<"text-green-600", "bg-green-50">>
      [] provider = "anthropic" -> <<"text-orange-600", "bg-orange-50">>
      [] provider = "google" -> <<"text-blue-600", "bg-blue-50">>
      [] OTHER -> <<"undefined">>

\* getModelColor
getModelColor(provider) ==
    CASE provider = "openai" -> <<"text-green-600", "bg-green-50">>
      [] provider = "anthropic" -> <<"text-orange-600", "bg-orange-50">>
      [] provider = "google" -> <<"text-blue-600", "bg-blue-50">>
      [] OTHER -> <<"text-gray-600", "bg-gray-50">>

Shown(fn, place, text) == [fn |-> fn, place |-> place, text |-> text]

\* a conversation list entry (ConversationList.tsx 94, 98, 86)
RenderListEntry ==
    \/ /\ arg.type = "amount"
       /\ display' = Shown("formatCost", "list", formatCostList(arg.amount))
    \/ /\ arg.type = "amount"
       /\ display' = Shown("formatCarbon", "list", formatCarbonList(arg.amount))
    \/ /\ arg.type = "age"
       /\ display' = Shown("formatDate", "list", formatDate(arg.age))

\* the chat header (ChatInterface.tsx 63, 67)
RenderChatHeader ==
    /\ arg.type = "amount"
    /\ \/ display' = Shown("formatCost", "header", formatCostChat(arg.amount))
       \/ display' = Shown("formatCarbon", "header", formatCarbonChat(arg.amount))

\* the footer of a message (ChatInterface.tsx 108, 110)
RenderMessageFooter ==
    /\ arg.type = "amount"
    /\ \/ display' = Shown("formatCost", "footer", formatCostChat(arg.amount))
       \/ display' = Shown("formatCarbon", "footer", formatCarbonChat(arg.amount))

\* an option of the model selector
RenderModelOption ==
    /\ arg.type = "provider"
    /\ \/ display' = Shown("getModelIcon", "option", getModelIcon(arg.provider))
       \/ display' = Shown("getModelColor", "option", getModelColor(arg.provider))

FormatInit ==
    /\ AppInit
    /\ arg \in { [type |-> "amount", amount |-> k, age |-> 0, provider |-> ""] :
                   k \in Amounts }
               \cup { [type |-> "age", amount |-> 0, age |-> a, provider |-> ""] :
                        a \in Ages }
               \cup { [type |-> "provider", amount |-> 0, age |-> 0, provider |-> p] :
                        p \in Providers }
    /\ display = NoDisplay
    /\ selectLog = NoSelect

FormatNext ==
    /\ \/ RenderListEntry
       \/ RenderChatHeader
       \/ RenderMessageFooter
       \/ RenderModelOption
    /\ UNCHANGED <<appVars, chatVars, serverVars, mounted, inflight, issued,
                   lastOp, arg, selectLog>>

SpecFormat == FormatInit /\ [][FormatNext]_vars

(* ============================ properties ============================== *)

SendsInFlight == { i \in 1..Len(inflight) : inflight[i].kind = "send" }

\* the request whose continuation (or catch block) the step runs
Settles(i, kind) ==
    /\ i \in 1..Len(inflight)
    /\ inflight[i].kind = kind
    /\ inflight' = Remove(inflight, i)

\* C1: the active conversation's message_count equals the length of its
\* messages and its total_tokens equals the sum of their token_count, in
\* every state reached by create, select and send.
C1_CountsMatchMessages ==
    currentConversation # Null =>
        /\ currentConversation.message_count = Len(currentConversation.messages)
        /\ currentConversation.total_tokens = SumTokens(currentConversation.messages)

\* C2: when a create completes, the returned conversation is the active one
\* and the list is that conversation followed by the list as it was just
\* before the completion.
C2_CreatePrependsToCurrentList ==
    [][ \A i \in 1..Len(inflight) :
          (lastOp' = Op("done", "create") /\ Settles(i, "create")) =>
             /\ currentConversation' = inflight[i].resp
             /\ conversations' = <<inflight[i].resp>> \o conversations ]_vars

\* C3: when a send completes, the returned message is the last of the
\* active conversation's messages, the messages before it are the former
\* ones in the former order, the other fields of the conversation and the
\* list, the catalog and the selected model are unchanged.
C3_SendAppendsOnly ==
    [][ \A i \in 1..Len(inflight) :
          (lastOp' = Op("done", "send") /\ Settles(i, "send")) =>
             LET old == currentConversation.messages
                 new == currentConversation'.messages IN
             /\ Len(new) = Len(old) + 1
             /\ new[Len(new)] = inflight[i].resp
             /\ SubSeq(new, 1, Len(old)) = old
             /\ [currentConversation' EXCEPT !.messages = old] = currentConversation
             /\ UNCHANGED <<conversations, availableModels, selectedModel>> ]_vars

C3_Witness ==
    /\ lastOp = Op("done", "send")
    /\ currentConversation # Null
    /\ Len(currentConversation.messages) >= 2

\* C4: a failed request of any kind leaves the list, the active
\* conversation with its messages, the catalog and the selected model as
\* they were, and puts no request in flight.
C4_FailureKeepsState ==
    [][ lastOp'.op = "fail" =>
          /\ UNCHANGED <<conversations, currentConversation, availableModels,
                         selectedModel>>
          /\ Len(inflight') = Len(inflight) - 1
          /\ issued' = issued ]_vars

C4_Witness ==
    /\ lastOp = Op("fail", "create")
    /\ conversations # <<>>
    /\ currentConversation # Null
    /\ currentConversation.messages # <<>>

\* C5: a submit with an empty or whitespace-only input is rejected: no
\* request is issued and the input text, the loading flag and the active
\* conversation stay as they were.
C5_BlankSubmitIsNoOp ==
    [][ (lastOp'.op = "submit" /\ trim(inputValue) = <<>>) =>
          /\ lastOp'.kind = "rejected"
          /\ UNCHANGED <<inputValue, isLoading, currentConversation, inflight,
                         issued>> ]_vars

C5_Witness ==
    /\ lastOp = Op("submit", "rejected")
    /\ inputValue = <<" ">>
    /\ ~isLoading

C7_SelectReplacesWholesale ==
    [][ lastOp' = Op("done", "select") =>
          \E i \in 1..Len(inflight) :
             /\ Settles(i, "select")
             /\ inflight[i].status = "answered"
             /\ inflight[i].resp.id = inflight[i].id
             /\ currentConversation' = inflight[i].resp
             /\ conversations' = conversations ]_vars

\* the list is headed by conversation 2 only once its creation has made it
\* the active conversation, so the select replaced an active conversation
C7_Witness ==
    /\ lastOp = Op("done", "select")
    /\ currentConversation # Null
    /\ currentConversation.id = 1
    /\ conversations # <<>>
    /\ conversations[1].id = 2

\* C8: the text input is disabled (isLoading) while a send is in flight,
\* the input text is the same after the submit and after every step that
\* leaves the send in flight, and it is cleared by the step that settles
\* the send.
C8_InputClearedOnSettle ==
    /\ [](SendsInFlight # {} => isLoading)
    /\ [][ /\ lastOp'.op = "submit" => inputValue' = inputValue
           /\ (SendsInFlight # {} /\ SendsInFlight' # {}) => inputValue' = inputValue
           /\ (SendsInFlight # {} /\ SendsInFlight' = {}) => inputValue' = <<>> ]_vars

C8_Witness ==
    /\ isLoading
    /\ inputValue = <<" ", "h", " ">>
    /\ \E i \in SendsInFlight : inflight[i].status = "answered"

\* C9: the submit control is in `sending` exactly while a send is in
\* flight: an accepted submit moves it there and the settling of the
\* request, by success or failure, moves it back to idle.
C9_SendingIffInFlight == isLoading <=> (SendsInFlight # {})

C9_Witness ==
    /\ lastOp = Op("fail", "send")
    /\ ~isLoading
    /\ SendsInFlight = {}

\* C10: there is no active conversation initially, and once there is one
\* no step takes the controller back to having none.
C10_NeverBackToNoConversation ==
    /\ currentConversation = Null
    /\ [][ currentConversation # Null => currentConversation' # Null ]_vars

C10_Witness ==
    /\ lastOp.op = "fail"
    /\ currentConversation # Null

\* C16: issuing a create, select or send changes neither the list nor the
\* active conversation and puts exactly one request in flight; the list
\* and the active conversation change only in the step that completes a
\* request successfully.
C16_NoOptimisticUpdate ==
    [][ /\ lastOp'.op \in {"issue", "submit"} =>
              UNCHANGED <<conversations, currentConversation>>
        /\ (lastOp' \in {Op("issue", "create"), Op("issue", "select"),
                         Op("submit", "accepted")}) =>
              (Len(inflight') = Len(inflight) + 1 /\ issued' = issued + 1)
        /\ <<conversations, currentConversation>>' #
              <<conversations, currentConversation>> => lastOp'.op = "done" ]_vars

C16_Witness ==
    /\ lastOp = Op("submit", "accepted")
    /\ SendsInFlight # {}
    /\ currentConversation.messages # <<>>
    /\ Len(currentConversation.messages) = currentConversation.message_count

(* ------------------ properties of a session in progress --------------- *)

\* C14: selecting the conversation that is already active issues a GET for
\* it and, when the backend returns the message sequence the client already
\* holds, the completed fetch leaves the active conversation (id, fields
\* and messages) as it was before the selection.
C14_ReselectIsNoOp ==
    [][ /\ (lastOp' = Op("issue", "select")) =>
              /\ Len(inflight') = Len(inflight) + 1
              /\ inflight'[Len(inflight')].kind = "select"
              /\ inflight'[Len(inflight')].id = selectLog'.id
        /\ \A i \in 1..Len(inflight) :
              ( /\ lastOp' = Op("done", "select")
                /\ Settles(i, "select")
                /\ selectLog.n = 1
                /\ selectLog.before # Null
                /\ selectLog.before.id = selectLog.id
                /\ inflight[i].resp.messages = selectLog.before.messages )
              => currentConversation' = selectLog.before ]_vars

\* C17: every message of the active conversation is a message of that
\* conversation on the backend: a send posted to one conversation is never
\* appended to a conversation with another id.
C17_MessagesBelongToActive ==
    currentConversation # Null =>
        \A k \in 1..Len(currentConversation.messages) :
            \E j \in 1..Len(db[currentConversation.id].messages) :
                db[currentConversation.id].messages[j] = currentConversation.messages[k]

\* C18: when the response of the last select still in flight arrives (none
\* has failed), the active conversation is the one selected most recently.
C18_LastSelectionWins ==
    [][ ( /\ lastOp' = Op("done", "select")
          /\ ~selectLog.failed
          /\ \A i \in 1..Len(inflight') : inflight'[i].kind # "select" )
        => currentConversation'.id = selectLog.id ]_vars

\* C19: a create, select or send answered with an error status and a JSON
\* body is treated as failed: its continuation leaves the conversation list
\* and the active conversation unchanged.
C19_ErrorStatusIsFailure ==
    [][ \A i \in 1..Len(inflight) :
          ( /\ lastOp'.op = "done"
            /\ inflight[i].kind \in {"create", "select", "send"}
            /\ Settles(i, inflight[i].kind)
            /\ inflight[i].resp = ErrorBody )
          => UNCHANGED <<conversations, currentConversation>> ]_vars

\* C20: once the catalog has loaded, the model name a create or send
\* request carries is the name of one of the available models.
C20_SentModelIsAvailable ==
    [][ ( /\ availableModels # <<>>
          /\ lastOp' \in {Op("issue", "create"), Op("submit", "accepted")} )
        => inflight'[Len(inflight')].model \in ModelNames ]_vars

(* --------------------- properties of the helpers ---------------------- *)

\* the number of characters between the "." of a rendered amount and its
\* end, `suffix` characters of unit not counted
RECURSIVE DotAt(_, _)
DotAt(text, i) ==
    IF i > Len(text) THEN 0 ELSE IF text[i] = "." THEN i ELSE DotAt(text, i + 1)
Decimals(text, suffix) == Len(text) - suffix - DotAt(text, 1)

\* C11: every cost shown is '<$0.01' below one cent and otherwise '$' and
\* the value with exactly two decimals; 0.004 gives '<$0.01' and 1.5 gives
\* '$1.50'.
C11_CostTwoDecimals ==
    display.fn = "formatCost" =>
       /\ IF arg.amount * 100 < AmountScale
            THEN display.text = <<"<", "$", "0", ".", "0", "1">>
            ELSE display.text[1] = "$" /\ Decimals(display.text, 0) = 2
       /\ arg.amount = 15000 => display.text = <<"$", "1", ".", "5", "0">>

\* C12: every carbon footprint shown is '<0.001g' below one milligram and
\* otherwise the value with exactly two decimals and 'g'; 2.1 gives
\* '2.10g'; no value of a milligram or more is shown as zero grams.
C12_CarbonTwoDecimals ==
    display.fn = "formatCarbon" =>
       /\ IF arg.amount * 1000 < AmountScale
            THEN display.text = <<"<", "0", ".", "0", "0", "1", "g">>
            ELSE /\ display.text[Len(display.text)] = "g"
                 /\ Decimals(display.text, 1) = 2
                 /\ display.text # <<"0", ".", "0", "0", "g">>
       /\ arg.amount = 21000 => display.text = <<"2", ".", "1", "0", "g">>

\* C13 as stated: less than 24 hours gives the time of day, from 24 hours
\* up to and including 168 hours the weekday, more than 168 hours month
\* and day.
C13_WeekdayThroughSevenDays ==
    display.fn = "formatDate" =>
       display.text = IF arg.age < 24 * AgePerHour THEN <<"time">>
                      ELSE IF arg.age <= 168 * AgePerHour THEN <<"weekday">>
                      ELSE <<"monthday">>

\* C13, amended: less than 24 hours gives the time of day, at least 24 and
\* less than 168 hours the weekday, 168 hours or more month and day; every
\* age is in exactly one of the three.
C13_DateBuckets ==
    display.fn = "formatDate" =>
       /\ display.text \in {<<"time">>, <<"weekday">>, <<"monthday">>}
       /\ display.text = <<"time">> <=> arg.age < 24 * AgePerHour
       /\ display.text = <<"weekday">> <=>
             (24 * AgePerHour <= arg.age /\ arg.age < 168 * AgePerHour)
       /\ display.text = <<"monthday">> <=> arg.age >= 168 * AgePerHour

C13_Witness ==
    /\ display.fn = "formatDate"
    /\ arg.age = 168 * AgePerHour
    /\ display.text = <<"monthday">>

\* C15: a provider other than 'openai', 'anthropic' and 'google' gets the
\* default icon and the neutral grey styling, each of the three its own
\* icon and colour; the lookups give a result for every provider.
C15_ProviderLookupTotal ==
    /\ display.fn = "getModelIcon" =>
          display.text = IF arg.provider = "anthropic" THEN <<"brain">>
                         ELSE IF arg.provider = "google" THEN <<"gem">>
                         ELSE <<"robot">>
    /\ display.fn = "getModelColor" =>
          /\ arg.provider = "openai" => display.text[1] = "text-green-600"
          /\ arg.provider = "anthropic" => display.text[1] = "text-orange-600"
          /\ arg.provider = "google" => display.text[1] = "text-blue-600"
          /\ arg.provider \notin {"openai", "anthropic", "google"} =>
                display.text = <<"text-gray-600", "bg-gray-50">>

C15_Witness ==
    /\ display.fn = "getModelColor"
    /\ arg.provider = "mistral"
    /\ display.text = <<"text-gray-600", "bg-gray-50">>

====
